---- MODULE Spec2Model ----
(***************************************************************************)
(* Model of go-observability-lab: the telemetry pipeline builder           *)
(* (SetupOTelSDK), its aggregate shutdown function, and the process        *)
(* lifecycle controller run() of a service node (listener goroutine,       *)
(* select between listener result and interruption signal, graceful drain, *)
(* deferred teardown).                                                     *)
(*                                                                         *)
(* An error value is modelled as the sequence of its leaf errors, in the   *)
(* order errors.Join keeps them; the nil error is the empty sequence.      *)
(***************************************************************************)
EXTENDS Naturals, Sequences, FiniteSets

VARIABLES
    tdFail,         \* environment: the pipelines whose Shutdown returns an error
    sdkpc,          \* position inside SetupOTelSDK
    shutdownFuncs,  \* SetupOTelSDK's registry of teardown callbacks
    built,          \* history: pipelines constructed successfully, in order
    failedAt,       \* history: the pipeline whose construction failed, or "none"
    sdkErr,         \* the error SetupOTelSDK returns
    calls,          \* history: how many times each pipeline's Shutdown was called
    callLog,        \* history: the Shutdown calls, in order
    sdHist,         \* history: one record per invocation of the aggregate shutdown
    sdPos,          \* the shutdown invocation in progress: callbacks its loop
                    \* has called so far
    pc,             \* position of run()
    err,            \* run()'s local variable err
    ret,            \* the value run() returns to main
    observing,      \* signal.NotifyContext still relays SIGINT
    signalled,      \* history: SIGINT was delivered to the context
    ctxDone,        \* the root context is cancelled
    lpc,            \* position of the listener goroutine
    lnRes,          \* the value ListenAndServe returned
    srvErr,         \* the channel srvErr (capacity 1)
    inShutdown,     \* srv.Shutdown has been called (listeners closed)
    drainErr,       \* the error srv.Shutdown will return
    hpc,            \* per request: position of its handler
    inflightAtDrain,\* history: the requests in flight when srv.Shutdown began
    lateArrivals,   \* history: requests that arrived after srv.Shutdown began
    lateSpan,       \* history: a span was started or ended after the trace
                    \* pipeline's teardown
    selChan,        \* history: what srvErr held when the select chose its arm
    \* The chain A -> B -> C, one GET / entering at A:
    mode,           \* environment: per node, healthy, unreachable or hung
    urlBad,         \* environment: nodes whose next-node URL does not parse
    hnd,            \* per node: position of handleRoot
    callErr,        \* per node: the error callAppB / callAppC returned ("none": nil)
    got,            \* per node: the downstream response client.Do returned
    resp,           \* per node: the response handleRoot wrote
    spanLog,        \* per node, history: the operations on its spans, in order
    outCalls,       \* per node, history: outbound requests issued
    rootDone,       \* per node: its root context is cancelled (SIGINT)
    reqCancel,      \* per node: the request's own cancel fired (client went away)
    pendingAtCancel,\* per node, history: an outbound call was pending when the
                    \* root context was cancelled
    healthResp      \* per node: the answer of GET /health (NoResp: none yet)

vars == <<tdFail, sdPos, sdkpc, shutdownFuncs, built, failedAt, sdkErr, calls, callLog,
          sdHist, pc, err, ret, observing, signalled, ctxDone, lpc, lnRes,
          srvErr, inShutdown, drainErr, hpc, inflightAtDrain, lateArrivals,
          lateSpan, selChan, mode, urlBad, hnd, callErr, got, resp, spanLog,
          outCalls, rootDone, reqCancel, pendingAtCancel, healthResp>>

chainVars == <<mode, urlBad, hnd, callErr, got, resp, spanLog, outCalls, rootDone,
               reqCancel, pendingAtCancel, healthResp>>
sdkVars == <<sdkpc, shutdownFuncs, built, failedAt, sdkErr, calls, callLog, sdHist>>
runVars == <<pc, err, ret>>
sigVars == <<observing, signalled, ctxDone>>
lnVars  == <<lpc, lnRes, srvErr>>
srvVars == <<inShutdown, drainErr, inflightAtDrain>>
reqVars == <<hpc, lateArrivals, lateSpan>>

----------------------------------------------------------------------------
(* Bounds *)

\* Requests that may arrive at the node.
MaxReqs == 2
\* Invocations of the returned shutdown function by a caller of SetupOTelSDK.
MaxShutdownCalls == 3

Reqs == 1..MaxReqs

----------------------------------------------------------------------------
(* Pipelines and errors *)

Pipelines == {"trace", "metric", "log"}

\* The order in which SetupOTelSDK builds (and registers) the pipelines.
BuildOrder == <<"trace", "metric", "log">>

NoErr == <<>>

BuildErr(p) == <<[kind |-> "build", of |-> p]>>
TdErr(p)    == <<[kind |-> "teardown", of |-> p]>>
ListenErr   == <<[kind |-> "listen", of |-> "srv"]>>
ErrServerClosed == <<[kind |-> "closed", of |-> "srv"]>>
CloseErr    == <<[kind |-> "close", of |-> "srv"]>>

\* errors.Join(a, b): nil operands are dropped, the others kept in order;
\* the result is nil when both are nil.
Join(a, b) == a \o b

Range(s) == {s[i] : i \in 1..Len(s)}

Contains(e, sub) == \A i \in 1..Len(sub) : \E j \in 1..Len(e) : e[j] = sub[i]

\* fn(ctx) for a registered callback: the provider's Shutdown.
Teardown(p, fails) == IF p \in fails THEN TdErr(p) ELSE NoErr

----------------------------------------------------------------------------
(* The aggregate shutdown function (closure of SetupOTelSDK) *)

\* Faulty variant: err = fn(ctx), each result overwriting the one before.
RECURSIVE ShutdownLoopLast(_, _, _)
ShutdownLoopLast(funcs, fails, acc) ==
    IF funcs = <<>> THEN acc
    ELSE ShutdownLoopLast(Tail(funcs), fails, Teardown(Head(funcs), fails))

\* for _, fn := range shutdownFuncs { err = errors.Join(err, fn(ctx)) }
RECURSIVE ShutdownLoop(_, _, _)
ShutdownLoop(funcs, fails, acc) ==
    IF funcs = <<>> THEN acc
    ELSE ShutdownLoop(Tail(funcs), fails, Join(acc, Teardown(Head(funcs), fails)))

\* Faulty variant: the loop returns at the first callback that fails.
RECURSIVE InvokedUntilError(_, _)
InvokedUntilError(funcs, fails) ==
    IF funcs = <<>> THEN <<>>
    ELSE IF Head(funcs) \in fails THEN <<Head(funcs)>>
    ELSE <<Head(funcs)>> \o InvokedUntilError(Tail(funcs), fails)

\* The callbacks one pass of the loop invokes: every element of the registry,
\* in registry order, whatever each returns.
Invoked(funcs, fails) == funcs

\* Faulty variant: the registry is not cleared.
ClearedKeep(funcs) == funcs

\* shutdownFuncs = nil
Cleared(funcs) == <<>>

\* shutdown(ctx): the error returned, the callbacks invoked, the registry left.
shutdown(funcs, fails) ==
    [err     |-> ShutdownLoop(funcs, fails, NoErr),
     invoked |-> Invoked(funcs, fails),
     funcs   |-> Cleared(funcs)]

\* Faulty variant: handleErr keeps the construction error and tears nothing down.
handleErrNoShutdown(inErr, funcs, fails) ==
    [err |-> inErr, sd |-> [err |-> NoErr, invoked |-> <<>>, funcs |-> funcs]]

\* handleErr(inErr): err = errors.Join(inErr, shutdown(ctx)).
\* err is what SetupOTelSDK then returns, sd the shutdown invocation made.
handleErr(inErr, funcs, fails) ==
    LET r == shutdown(funcs, fails)
    IN  [err |-> Join(inErr, r.err), sd |-> r]

----------------------------------------------------------------------------
(* Initial state: run() has called signal.NotifyContext and enters          *)
(* SetupOTelSDK; which teardown callbacks will fail is the environment's.   *)

\* The three services and the node each one forwards to.
Nodes == {"A", "B", "C"}
NonTerminal == {"A", "B"}
NextNode(n) == IF n = "A" THEN "B" ELSE "C"
Upstream(n) == IF n = "C" THEN "B" ELSE "A"

\* const serviceName
ServiceName(n) == IF n = "A" THEN "app-a" ELSE IF n = "B" THEN "app-b" ELSE "app-c"

\* What a downstream node does with a connection: it serves it, refuses it
\* (nothing listens), or never answers it.
Modes == {"healthy", "unreachable", "hung"}

\* No response (yet).
NoResp == [code |-> 0, body |-> [json |-> FALSE, val |-> [text |-> ""]]]

\* No request has reached the chain.
ChainStart ==
    /\ hnd = [n \in Nodes |-> "idle"]
    /\ callErr = [n \in Nodes |-> "none"]
    /\ got = [n \in Nodes |-> NoResp]
    /\ resp = [n \in Nodes |-> NoResp]
    /\ spanLog = [n \in Nodes |-> <<>>]
    /\ outCalls = [n \in Nodes |-> 0]
    /\ rootDone = [n \in Nodes |-> FALSE]
    /\ reqCancel = [n \in Nodes |-> FALSE]
    /\ pendingAtCancel = [n \in Nodes |-> FALSE]
    /\ healthResp = [n \in Nodes |-> NoResp]

\* run() has called signal.NotifyContext and enters SetupOTelSDK.
RunStart ==
    /\ sdkpc = "trace"
    /\ shutdownFuncs = <<>>
    /\ built = <<>>
    /\ failedAt = "none"
    /\ sdkErr = NoErr
    /\ calls = [p \in Pipelines |-> 0]
    /\ callLog = <<>>
    /\ sdHist = <<>>
    /\ sdPos = 0
    /\ pc = "setup"
    /\ err = NoErr
    /\ ret = NoErr
    /\ observing = TRUE
    /\ signalled = FALSE
    /\ ctxDone = FALSE
    /\ lpc = "unstarted"
    /\ lnRes = NoErr
    /\ srvErr = <<>>
    /\ inShutdown = FALSE
    /\ drainErr = NoErr
    /\ hpc = [r \in Reqs |-> "new"]
    /\ inflightAtDrain = {}
    /\ lateArrivals = {}
    /\ lateSpan = FALSE
    /\ selChan = <<>>

Init ==
    /\ tdFail \in SUBSET Pipelines
    /\ RunStart
    /\ mode = [n \in Nodes |-> "healthy"]
    /\ urlBad = {}
    /\ ChainStart

\* The chain at rest; the state of the downstream nodes and the configured
\* URLs are the environment's.
InitChain ==
    /\ tdFail = {}
    /\ RunStart
    /\ mode \in {m \in [Nodes -> Modes] : m["A"] = "healthy"}
    /\ urlBad \in SUBSET NonTerminal
    /\ ChainStart

----------------------------------------------------------------------------
(* SetupOTelSDK *)

\* One construction step of SetupOTelSDK: newXProvider() either succeeds, and
\* the provider's Shutdown is appended to shutdownFuncs, or fails, and
\* handleErr(err) is entered.
Build(p, next) ==
    /\ pc = "setup"
    /\ sdkpc = p
    /\ \E ok \in BOOLEAN :
         IF ok
         THEN /\ shutdownFuncs' = Append(shutdownFuncs, p)
              /\ built' = Append(built, p)
              /\ sdkpc' = next
              /\ UNCHANGED failedAt
         ELSE /\ failedAt' = p
              /\ sdkpc' = "handleErr"
              /\ UNCHANGED <<shutdownFuncs, built>>
    /\ UNCHANGED <<chainVars, tdFail, sdPos, selChan, sdkErr, calls, callLog, sdHist,
                   runVars, sigVars, lnVars, srvVars, reqVars>>

BuildTrace  == Build("trace", "metric")
BuildMetric == Build("metric", "log")
\* After the logger provider is registered SetupOTelSDK returns shutdown, err
\* with err nil.
BuildLog    == Build("log", "returned")

\* One call fn(ctx) of the loop of the aggregate shutdown function: the
\* next callback of those the invocation makes; a blocking call into the SDK.
CallNext(invoked) ==
    /\ sdPos < Len(invoked)
    /\ calls' = [calls EXCEPT ![invoked[sdPos + 1]] = @ + 1]
    /\ callLog' = Append(callLog, invoked[sdPos + 1])
    /\ sdPos' = sdPos + 1

\* The loop of the aggregate shutdown function is over: the registry is
\* left as invocation r leaves it and the invocation is recorded.
LoopDone(r, by) ==
    /\ sdPos = Len(r.invoked)
    /\ shutdownFuncs' = r.funcs
    /\ sdHist' = Append(sdHist, [by |-> by, reg |-> shutdownFuncs,
                                 invoked |-> r.invoked, err |-> r.err])
    /\ sdPos' = 0

\* handleErr is inside shutdown(ctx): it calls the next registered callback.
HandleErrCall ==
    /\ pc = "setup"
    /\ sdkpc = "handleErr"
    /\ CallNext(handleErr(BuildErr(failedAt), shutdownFuncs, tdFail).sd.invoked)
    /\ UNCHANGED <<chainVars, tdFail, selChan, sdkpc, shutdownFuncs, built, failedAt,
                   sdkErr, sdHist, runVars, sigVars, lnVars, srvVars, reqVars>>

\* handleErr returns and SetupOTelSDK executes "return shutdown, err".
HandleErrReturn ==
    /\ pc = "setup"
    /\ sdkpc = "handleErr"
    /\ LET h == handleErr(BuildErr(failedAt), shutdownFuncs, tdFail)
       IN  /\ LoopDone(h.sd, "handleErr")
           /\ sdkErr' = h.err
    /\ sdkpc' = "returned"
    /\ UNCHANGED <<chainVars, tdFail, selChan, built, failedAt, calls, callLog,
                   runVars, sigVars, lnVars, srvVars, reqVars>>

ClientCalls == Cardinality({i \in 1..Len(sdHist) : sdHist[i].by = "client"})

\* A caller of SetupOTelSDK has invoked the shutdown function it was handed,
\* and the loop calls the next registered callback.
ClientCall ==
    /\ pc = "setup"
    /\ sdkpc = "returned"
    /\ ClientCalls < MaxShutdownCalls
    /\ CallNext(shutdown(shutdownFuncs, tdFail).invoked)
    /\ UNCHANGED <<chainVars, tdFail, selChan, sdkpc, shutdownFuncs, built, failedAt,
                   sdkErr, sdHist, runVars, sigVars, lnVars, srvVars, reqVars>>

\* The shutdown function the caller invoked returns.
ClientShutdown ==
    /\ pc = "setup"
    /\ sdkpc = "returned"
    /\ ClientCalls < MaxShutdownCalls
    /\ LoopDone(shutdown(shutdownFuncs, tdFail), "client")
    /\ UNCHANGED <<chainVars, tdFail, selChan, sdkpc, built, failedAt, sdkErr, calls,
                   callLog, runVars, sigVars, lnVars, srvVars, reqVars>>

NextSDK ==
    \/ BuildTrace \/ BuildMetric \/ BuildLog
    \/ HandleErrCall \/ HandleErrReturn
    \/ ClientCall \/ ClientShutdown

\* SetupOTelSDK and its returned shutdown function, used by an arbitrary caller.
SpecSDK == Init /\ [][NextSDK]_vars

----------------------------------------------------------------------------
(* run(): after SetupOTelSDK *)

\* Faulty variant: the error of SetupOTelSDK is ignored.
SetupFailedNever(e) == FALSE

\* if err != nil
SetupFailed(e) == e # NoErr

\* otelShutdown, err := SetupOTelSDK(...); if err != nil { return err }.
\* Only "defer stop()" is registered at this point.
RunSetupFailed ==
    /\ pc = "setup"
    /\ sdkpc = "returned"
    /\ SetupFailed(sdkErr)
    /\ err' = sdkErr
    /\ ret' = sdkErr
    /\ pc' = "defer_stop"
    /\ UNCHANGED <<chainVars, tdFail, sdPos, selChan, sdkVars, sigVars, lnVars, srvVars, reqVars>>

\* Setup succeeded: the teardown is deferred, the server is created and the
\* listener goroutine is spawned; run() reaches its select.
RunSetupOk ==
    /\ pc = "setup"
    /\ sdkpc = "returned"
    /\ ~SetupFailed(sdkErr)
    /\ err' = sdkErr
    /\ lpc' = "spawned"
    /\ pc' = "select"
    /\ UNCHANGED <<chainVars, tdFail, sdPos, selChan, sdkVars, ret, sigVars, lnRes, srvErr, srvVars,
                   reqVars>>

\* The process is alive until run() has returned to main, which then exits.
Alive == pc # "done"

\* SIGINT is delivered while signal.NotifyContext relays it: ctx is cancelled.
Signal ==
    /\ Alive
    /\ observing
    /\ ~signalled
    /\ signalled' = TRUE
    /\ ctxDone' = TRUE
    /\ UNCHANGED <<chainVars, tdFail, sdPos, selChan, sdkVars, runVars, observing, lnVars, srvVars,
                   reqVars>>

----------------------------------------------------------------------------
(* The listener goroutine: srvErr <- srv.ListenAndServe() *)

\* ListenAndServe begins: it returns ErrServerClosed when the server is
\* already shutting down, fails to bind, or binds and serves.
ListenerStart ==
    /\ Alive
    /\ lpc = "spawned"
    /\ \/ /\ inShutdown
          /\ lnRes' = ErrServerClosed
          /\ lpc' = "returned"
       \/ /\ ~inShutdown
          /\ lnRes' = ListenErr
          /\ lpc' = "returned"
       \/ /\ ~inShutdown
          /\ lnRes' = lnRes
          /\ lpc' = "serving"
    /\ UNCHANGED <<chainVars, tdFail, sdPos, selChan, sdkVars, runVars, sigVars, srvErr, srvVars, reqVars>>

\* Accept fails with a permanent error while serving: ListenAndServe returns it.
ListenerFail ==
    /\ Alive
    /\ lpc = "serving"
    /\ ~inShutdown
    /\ lnRes' = ListenErr
    /\ lpc' = "returned"
    /\ UNCHANGED <<chainVars, tdFail, sdPos, selChan, sdkVars, runVars, sigVars, srvErr, srvVars, reqVars>>

\* srv.Shutdown closed the listener: ListenAndServe returns ErrServerClosed.
ListenerClosed ==
    /\ Alive
    /\ lpc = "serving"
    /\ inShutdown
    /\ lnRes' = ErrServerClosed
    /\ lpc' = "returned"
    /\ UNCHANGED <<chainVars, tdFail, sdPos, selChan, sdkVars, runVars, sigVars, srvErr, srvVars, reqVars>>

\* make(chan error, 1)
ChanCap == 1

\* Faulty variant: after its send the goroutine goes round to send again.
ListenerSendAgain ==
    /\ Alive
    /\ lpc = "returned"
    /\ Len(srvErr) < ChanCap
    /\ srvErr' = Append(srvErr, lnRes)
    /\ UNCHANGED <<chainVars, tdFail, sdPos, selChan, sdkVars, runVars, sigVars, lpc, lnRes, srvVars,
                   reqVars>>

\* The send on srvErr; the goroutine then ends.
ListenerSend ==
    /\ Alive
    /\ lpc = "returned"
    /\ Len(srvErr) < ChanCap
    /\ srvErr' = Append(srvErr, lnRes)
    /\ lpc' = "exited"
    /\ UNCHANGED <<chainVars, tdFail, sdPos, selChan, sdkVars, runVars, sigVars, lnRes, srvVars, reqVars>>

----------------------------------------------------------------------------
(* Requests and their handlers *)

Active == {r \in Reqs : hpc[r] = "running"}

\* The trace pipeline's Shutdown has been called.
TraceTornDown == calls["trace"] > 0

\* The server accepts connections while ListenAndServe serves and
\* srv.Shutdown has not closed the listener.
ListenerOpen(lp, sh) == lp = "serving" /\ ~sh

\* A request is accepted and its handler starts: handleRoot opens its span.
Accept(r) ==
    /\ Alive
    /\ hpc[r] = "new"
    /\ ListenerOpen(lpc, inShutdown)
    /\ hpc' = [hpc EXCEPT ![r] = "running"]
    /\ lateArrivals' = IF inShutdown THEN lateArrivals \cup {r} ELSE lateArrivals
    /\ lateSpan' = (lateSpan \/ TraceTornDown)
    /\ UNCHANGED <<chainVars, tdFail, sdPos, selChan, sdkVars, runVars, sigVars, lnVars, srvVars>>

\* A request arrives while no listener is open: the connection is refused.
Refuse(r) ==
    /\ Alive
    /\ hpc[r] = "new"
    /\ ~ListenerOpen(lpc, inShutdown)
    /\ hpc' = [hpc EXCEPT ![r] = "refused"]
    /\ lateArrivals' = IF inShutdown THEN lateArrivals \cup {r} ELSE lateArrivals
    /\ UNCHANGED <<chainVars, tdFail, sdPos, selChan, sdkVars, runVars, sigVars, lnVars, srvVars,
                   lateSpan>>

\* The handler returns: the deferred span.End() runs and the response is sent.
Finish(r) ==
    /\ Alive
    /\ hpc[r] = "running"
    /\ hpc' = [hpc EXCEPT ![r] = "answered"]
    /\ lateSpan' = (lateSpan \/ TraceTornDown)
    /\ UNCHANGED <<chainVars, tdFail, sdPos, selChan, sdkVars, runVars, sigVars, lnVars, srvVars,
                   lateArrivals>>

----------------------------------------------------------------------------
(* run(): the select, the drain and the deferred calls *)

\* case err = <-srvErr: return err
SelectListener ==
    /\ pc = "select"
    /\ srvErr # <<>>
    /\ err' = Head(srvErr)
    /\ ret' = Head(srvErr)
    /\ srvErr' = Tail(srvErr)
    /\ pc' = "defer_otel"
    /\ selChan' = srvErr
    /\ UNCHANGED <<chainVars, tdFail, sdPos, sdkVars, sigVars, lpc, lnRes, srvVars, reqVars>>

\* case <-ctx.Done(): stop()
SelectSignal ==
    /\ pc = "select"
    /\ ctxDone
    /\ observing' = FALSE
    /\ pc' = "shutdown"
    /\ selChan' = srvErr
    /\ UNCHANGED <<chainVars, tdFail, sdPos, sdkVars, err, ret, signalled, ctxDone, lnVars,
                   srvVars, reqVars>>

\* srv.Shutdown(context.Background()) begins: the server is marked as
\* shutting down and its listeners are closed; closing an open listener may
\* fail, and that error is what Shutdown returns at the end.
SrvShutdownBegin ==
    /\ pc = "shutdown"
    /\ inShutdown' = TRUE
    /\ inflightAtDrain' = Active
    /\ \E e \in (IF lpc = "serving" THEN {NoErr, CloseErr} ELSE {NoErr}) :
         drainErr' = e
    /\ pc' = "draining"
    /\ UNCHANGED <<chainVars, tdFail, sdPos, selChan, sdkVars, err, ret, sigVars, lnVars, reqVars>>

\* Faulty variant: Shutdown is given a context that is already done and
\* returns without waiting.
ShutdownMayReturnAtOnce(active) == TRUE

\* srv.Shutdown(context.Background()) returns once no connection is active;
\* the background context never expires.
ShutdownMayReturn(active) == active = {}

\* Faulty variant: after the drain run() also takes the listener's result
\* from srvErr and returns it with Shutdown's.
SrvShutdownReturnWithListener ==
    /\ pc = "draining"
    /\ ShutdownMayReturn(Active)
    /\ LET r == Join(drainErr, IF srvErr = <<>> THEN lnRes ELSE Head(srvErr))
       IN  err' = r /\ ret' = r
    /\ pc' = "defer_otel"
    /\ UNCHANGED <<chainVars, tdFail, sdPos, selChan, sdkVars, sigVars, lnVars, srvVars, reqVars>>

\* err = srv.Shutdown(context.Background()); return err
SrvShutdownReturn ==
    /\ pc = "draining"
    /\ ShutdownMayReturn(Active)
    /\ err' = drainErr
    /\ ret' = drainErr
    /\ pc' = "defer_otel"
    /\ UNCHANGED <<chainVars, tdFail, sdPos, selChan, sdkVars, sigVars, lnVars, srvVars, reqVars>>

\* What run() hands to main after the deferred closure assigned
\* err = errors.Join(err, otelShutdown(...)): run's result is unnamed, so
\* "return err" copied err before the deferred call ran, and the assignment
\* to the local err does not reach the caller.
ResultAfterDefer(returned, joined) == returned

\* Faulty variant: the teardown is not deferred.
DeferWithoutShutdown ==
    /\ pc = "defer_otel"
    /\ pc' = "defer_stop"
    /\ UNCHANGED <<chainVars, tdFail, sdPos, selChan, sdkVars, err, ret, sigVars, lnVars, srvVars,
                   reqVars>>

\* The deferred otelShutdown is inside its loop: it calls the next callback
\* of the registry, a blocking call into the SDK during which the handler
\* goroutines keep running.
DeferOtelCall ==
    /\ pc = "defer_otel"
    /\ CallNext(shutdown(shutdownFuncs, tdFail).invoked)
    /\ UNCHANGED <<chainVars, tdFail, selChan, sdkpc, shutdownFuncs, built, failedAt,
                   sdkErr, sdHist, runVars, sigVars, lnVars, srvVars, reqVars>>

\* defer func() { err = errors.Join(err, otelShutdown(context.Background())) }()
\* The loop is over: the registry is cleared, the joined error is returned
\* and assigned to err.
DeferOtelShutdown ==
    /\ pc = "defer_otel"
    /\ LET r == shutdown(shutdownFuncs, tdFail)
       IN  /\ LoopDone(r, "defer")
           /\ err' = Join(err, r.err)
           /\ ret' = ResultAfterDefer(ret, Join(err, r.err))
    /\ pc' = "defer_stop"
    /\ UNCHANGED <<chainVars, tdFail, selChan, sdkpc, built, failedAt, sdkErr,
                   calls, callLog, sigVars, lnVars, srvVars, reqVars>>

\* defer stop(): the signal relay ends and ctx is cancelled; run() returns.
DeferStop ==
    /\ pc = "defer_stop"
    /\ observing' = FALSE
    /\ ctxDone' = TRUE
    /\ pc' = "done"
    /\ UNCHANGED <<chainVars, tdFail, sdPos, selChan, sdkVars, err, ret, signalled, lnVars, srvVars,
                   reqVars>>

Next ==
    \/ BuildTrace \/ BuildMetric \/ BuildLog
    \/ HandleErrCall \/ HandleErrReturn
    \/ RunSetupFailed \/ RunSetupOk
    \/ Signal
    \/ ListenerStart \/ ListenerFail \/ ListenerClosed \/ ListenerSend
    \/ \E r \in Reqs : Accept(r)
    \/ \E r \in Reqs : Refuse(r)
    \/ \E r \in Reqs : Finish(r)
    \/ SelectListener \/ SelectSignal
    \/ SrvShutdownBegin \/ SrvShutdownReturn
    \/ DeferOtelCall \/ DeferOtelShutdown \/ DeferStop

\* One service node's process, from run()'s entry to its return.
Spec == Init /\ [][Next]_vars

\* run() under a fair scheduler: a ready select arm is taken, srv.Shutdown
\* and the deferred calls run to their end, and a running handler returns
\* (its outbound call is bounded by the client's Timeout).
SpecFair ==
    /\ Spec
    /\ WF_vars(SelectListener) /\ WF_vars(SelectSignal)
    /\ WF_vars(SrvShutdownBegin) /\ WF_vars(SrvShutdownReturn)
    /\ WF_vars(DeferOtelCall) /\ WF_vars(DeferOtelShutdown) /\ WF_vars(DeferStop)
    /\ \A r \in Reqs : WF_vars(Finish(r))

\* run() with a scheduler that is fair to the listener goroutine only: the
\* goroutine runs whenever it can, whatever run() itself does.
SpecListenerFair ==
    /\ Spec
    /\ WF_vars(ListenerStart) /\ WF_vars(ListenerClosed)
    /\ WF_vars(ListenerSend)

----------------------------------------------------------------------------
(* The chain A -> B -> C: contexts *)

\* Faulty variant: the server is given no BaseContext, so request contexts
\* derive from the background context.
BaseContextBackground(n) == FALSE

\* BaseContext: func(_ net.Listener) context.Context { return ctx }: every
\* request context of node n derives from n's root context.
BaseContextDone(n) == rootDone[n]

\* r.Context(): done when its own cancel fired or its parent is done.
ReqCtxDone(n) == reqCancel[n] \/ BaseContextDone(n)

\* The context of the outbound request: tracer.Start(r.Context(), ...), then
\* tracer.Start(ctx, ...), then http.NewRequestWithContext(ctx, ...) keep the
\* request context as parent.
CallCtxDone(n) == ReqCtxDone(n)

\* Faulty variant: the client is built without a Timeout.
TimeoutNever == FALSE

\* http.Client{Timeout: 5 * time.Second}: a non-zero Timeout bounds the call.
TimeoutArmed == TRUE

----------------------------------------------------------------------------
(* The chain A -> B -> C: bodies and spans *)

\* http.StatusOK, http.StatusInternalServerError
StatusOK == 200
StatusInternalServerError == 500

\* json.NewEncoder(w).Encode(v): a JSON document holding v.
Encode(v) == [json |-> TRUE, val |-> v]

\* A plain-text body (http.Error, w.Write).
TextBody(t) == [json |-> FALSE, val |-> [text |-> t]]

\* Faulty variant: the decode error is not checked and the body is wrapped
\* whatever it is.
UnmarshalUnchecked(b) == [ok |-> TRUE, val |-> b.val]

\* json.Unmarshal(body, &result) into a map: fails on anything but a JSON
\* object.
Unmarshal(b) == IF b.json THEN [ok |-> TRUE, val |-> b.val]
                ELSE [ok |-> FALSE, val |-> [text |-> "invalid"]]

\* The terminal node's payload.
TerminalPayload ==
    [service |-> ServiceName("C"), message |-> "Resposta final do App C",
     status |-> "success"]

\* A non-terminal node's payload around the decoded downstream result.
ForwardResult(n, result) ==
    [service |-> ServiceName(n),
     message |-> IF n = "A" THEN "Chamou App B com sucesso"
                 ELSE "Chamou App C com sucesso",
     result |-> result]

Ev(sp, op) == [span |-> sp, op |-> op]

\* Faulty variant: an error return of callAppB / callAppC leaves its span open.
CallReturnNoEndOnError(e) == IF e = "none" THEN <<Ev("call", "end")>> ELSE <<>>

\* defer span.End() in callAppB / callAppC: runs on every return.
CallReturn(e) == <<Ev("call", "end")>>

\* Faulty variant: the error is not recorded on the request span.
RootReturnNoRecord(e) == <<Ev("root", "end")>>

\* Faulty variant: the error is recorded after the span has ended.
RootReturnRecordAfterEnd(e) ==
    IF e = "none" THEN <<Ev("root", "end")>>
    ELSE <<Ev("root", "end"), Ev("root", "error")>>

\* handleRoot's return: on an error span.RecordError(err) first; the deferred
\* span.End() runs on every return.
RootReturn(e) ==
    IF e = "none" THEN <<Ev("root", "end")>>
    ELSE <<Ev("root", "error"), Ev("root", "end")>>

\* Faulty variant: the node answers the wrong key for the downstream result.
RootResponseFlat(n, e, result) ==
    IF e = "none"
    THEN [code |-> StatusOK, body |-> Encode(result)]
    ELSE [code |-> StatusInternalServerError, body |-> TextBody(e)]

\* What a non-terminal handleRoot writes: http.Error(w, err.Error(), 500) on
\* an error, else the encoded ForwardResult with the implicit status 200.
RootResponse(n, e, result) ==
    IF e = "none"
    THEN [code |-> StatusOK, body |-> Encode(ForwardResult(n, result))]
    ELSE [code |-> StatusInternalServerError, body |-> TextBody(e)]

\* Faulty variant: the health check probes the next node.
handleHealthDeep(down) ==
    IF down \in {"healthy", "none"}
    THEN [code |-> StatusOK, body |-> TextBody("OK"), out |-> 1]
    ELSE [code |-> StatusInternalServerError, body |-> TextBody("down"), out |-> 1]

\* handleHealth: w.WriteHeader(http.StatusOK); w.Write([]byte("OK")).
\* out is the number of outbound calls it makes.
handleHealth(down) == [code |-> StatusOK, body |-> TextBody("OK"), out |-> 0]

\* The state of node n's downstream node, "none" at the terminal node.
Downstream(n) == IF n \in NonTerminal THEN mode[NextNode(n)] ELSE "none"

\* Node n has a listener and serves (the entry node always does).
Listening(n) == mode[n] = "healthy"

----------------------------------------------------------------------------
(* The chain A -> B -> C: handlers *)

Log(n, evs) == spanLog' = [spanLog EXCEPT ![n] = spanLog[n] \o evs]
At(n, pos) == hnd' = [hnd EXCEPT ![n] = pos]

\* GET / reaches node n: at A from a client, at B and C from the node before
\* it while that node waits for the answer. handleRoot starts its span and
\* sets http.method and http.path.
Arrive(n) ==
    /\ hnd[n] = "idle"
    /\ Listening(n)
    /\ n # "A" => hnd[Upstream(n)] = "waiting"
    /\ At(n, "open")
    /\ Log(n, <<Ev("root", "start"), Ev("root", "attr")>>)
    /\ UNCHANGED <<tdFail, sdPos, selChan, sdkVars, runVars, sigVars, lnVars, srvVars,
                   reqVars, mode, urlBad, callErr, got, resp, outCalls,
                   rootDone, reqCancel, pendingAtCancel, healthResp>>

\* callAppB / callAppC up to client.Do: the call span is started and tagged
\* with the URL; http.NewRequestWithContext fails on a URL that does not
\* parse, else the request is issued.
Forward(n) ==
    /\ n \in NonTerminal
    /\ hnd[n] = "open"
    /\ IF n \in urlBad
       THEN /\ callErr' = [callErr EXCEPT ![n] = "badurl"]
            /\ Log(n, <<Ev("call", "start"), Ev("call", "attr")>>
                      \o CallReturn("badurl"))
            /\ At(n, "returned")
            /\ UNCHANGED outCalls
       ELSE /\ outCalls' = [outCalls EXCEPT ![n] = outCalls[n] + 1]
            /\ Log(n, <<Ev("call", "start"), Ev("call", "attr")>>)
            /\ At(n, "waiting")
            /\ UNCHANGED callErr
    /\ UNCHANGED <<tdFail, sdPos, selChan, sdkVars, runVars, sigVars, lnVars, srvVars,
                   reqVars, mode, urlBad, got, resp, rootDone, reqCancel,
                   pendingAtCancel, healthResp>>

\* client.Do returns the error e.
DoFails(n, e) ==
    /\ callErr' = [callErr EXCEPT ![n] = e]
    /\ Log(n, CallReturn(e))
    /\ At(n, "returned")
    /\ UNCHANGED <<tdFail, sdPos, selChan, sdkVars, runVars, sigVars, lnVars, srvVars,
                   reqVars, mode, urlBad, got, resp, outCalls, rootDone,
                   reqCancel, pendingAtCancel, healthResp>>

\* Nothing listens at the next node: the connection is refused. (A call
\* whose context is done returns the context's error: see Cancelled.)
Refused(n) ==
    /\ n \in NonTerminal
    /\ hnd[n] = "waiting"
    /\ mode[NextNode(n)] = "unreachable"
    /\ ~CallCtxDone(n)
    /\ DoFails(n, "refused")

\* The client's Timeout expires while the answer is awaited.
Timeout(n) ==
    /\ n \in NonTerminal
    /\ hnd[n] = "waiting"
    /\ TimeoutArmed
    /\ ~CallCtxDone(n)
    /\ DoFails(n, "timeout")

\* The request's context is done while the answer is awaited.
Cancelled(n) ==
    /\ n \in NonTerminal
    /\ hnd[n] = "waiting"
    /\ CallCtxDone(n)
    /\ DoFails(n, "canceled")

\* The next node has answered: client.Do returns its response.
Deliver(n) ==
    /\ n \in NonTerminal
    /\ hnd[n] = "waiting"
    /\ hnd[NextNode(n)] = "done"
    /\ ~CallCtxDone(n)
    /\ got' = [got EXCEPT ![n] = resp[NextNode(n)]]
    /\ At(n, "reading")
    /\ UNCHANGED <<tdFail, sdPos, selChan, sdkVars, runVars, sigVars, lnVars, srvVars,
                   reqVars, mode, urlBad, callErr, resp, spanLog, outCalls,
                   rootDone, reqCancel, pendingAtCancel, healthResp>>

\* io.ReadAll, json.Unmarshal and the return of callAppB / callAppC: a read
\* error or a decode error is returned; otherwise the call span is tagged
\* with the status code and the decoded result returned.
ReadBody(n) ==
    /\ n \in NonTerminal
    /\ hnd[n] = "reading"
    /\ \E readOk \in BOOLEAN :
         LET e == IF ~readOk THEN "read"
                  ELSE IF ~Unmarshal(got[n].body).ok THEN "decode"
                  ELSE "none"
         IN  /\ callErr' = [callErr EXCEPT ![n] = e]
             /\ Log(n, (IF e = "none" THEN <<Ev("call", "attr")>> ELSE <<>>)
                       \o CallReturn(e))
    /\ At(n, "returned")
    /\ UNCHANGED <<tdFail, sdPos, selChan, sdkVars, runVars, sigVars, lnVars, srvVars,
                   reqVars, mode, urlBad, got, resp, outCalls, rootDone,
                   reqCancel, pendingAtCancel, healthResp>>

\* handleRoot after callAppB / callAppC returned: the answer is written and
\* the handler returns.
Respond(n) ==
    /\ n \in NonTerminal
    /\ hnd[n] = "returned"
    /\ resp' = [resp EXCEPT ![n] =
                  RootResponse(n, callErr[n],
                               IF callErr[n] = "none"
                               THEN Unmarshal(got[n].body).val
                               ELSE [text |-> "nil"])]
    /\ Log(n, RootReturn(callErr[n]))
    /\ At(n, "done")
    /\ UNCHANGED <<tdFail, sdPos, selChan, sdkVars, runVars, sigVars, lnVars, srvVars,
                   reqVars, mode, urlBad, callErr, got, outCalls, rootDone,
                   reqCancel, pendingAtCancel, healthResp>>

\* The terminal handleRoot: time.Sleep ends, the span is tagged with
\* response.status, the payload is written and the handler returns.
Work ==
    /\ hnd["C"] = "open"
    /\ resp' = [resp EXCEPT !["C"] =
                  [code |-> StatusOK, body |-> Encode(TerminalPayload)]]
    /\ Log("C", <<Ev("root", "attr"), Ev("root", "end")>>)
    /\ At("C", "done")
    /\ UNCHANGED <<tdFail, sdPos, selChan, sdkVars, runVars, sigVars, lnVars, srvVars,
                   reqVars, mode, urlBad, callErr, got, outCalls, rootDone,
                   reqCancel, pendingAtCancel, healthResp>>

\* SIGINT at node n: its root context is cancelled.
RootCancel(n) ==
    /\ ~rootDone[n]
    /\ rootDone' = [rootDone EXCEPT ![n] = TRUE]
    /\ pendingAtCancel' = [pendingAtCancel EXCEPT ![n] = (hnd[n] = "waiting")]
    /\ UNCHANGED <<tdFail, sdPos, selChan, sdkVars, runVars, sigVars, lnVars, srvVars,
                   reqVars, mode, urlBad, hnd, callErr, got, resp, spanLog,
                   outCalls, reqCancel, healthResp>>

\* The caller of node n goes away while its request is handled: the
\* request's context is cancelled.
ClientGone(n) ==
    /\ hnd[n] \notin {"idle", "done"}
    /\ ~reqCancel[n]
    /\ reqCancel' = [reqCancel EXCEPT ![n] = TRUE]
    /\ UNCHANGED <<tdFail, sdPos, selChan, sdkVars, runVars, sigVars, lnVars, srvVars,
                   reqVars, mode, urlBad, hnd, callErr, got, resp, spanLog,
                   outCalls, rootDone, pendingAtCancel, healthResp>>

\* GET /health at node n.
Health(n) ==
    /\ Listening(n)
    /\ healthResp[n] = NoResp
    /\ LET r == handleHealth(Downstream(n))
       IN  /\ healthResp' = [healthResp EXCEPT ![n] =
                               [code |-> r.code, body |-> r.body]]
           /\ outCalls' = [outCalls EXCEPT ![n] = outCalls[n] + r.out]
    /\ UNCHANGED <<tdFail, sdPos, selChan, sdkVars, runVars, sigVars, lnVars, srvVars,
                   reqVars, mode, urlBad, hnd, callErr, got, resp, spanLog,
                   rootDone, reqCancel, pendingAtCancel>>

NextChain ==
    \/ \E n \in Nodes : Arrive(n)
    \/ \E n \in Nodes : Forward(n)
    \/ \E n \in Nodes : Refused(n)
    \/ \E n \in Nodes : Timeout(n)
    \/ \E n \in Nodes : Cancelled(n)
    \/ \E n \in Nodes : Deliver(n)
    \/ \E n \in Nodes : ReadBody(n)
    \/ \E n \in Nodes : Respond(n)
    \/ Work
    \/ \E n \in Nodes : RootCancel(n)
    \/ \E n \in Nodes : ClientGone(n)
    \/ \E n \in Nodes : Health(n)

\* One GET / through the chain, with the health endpoints.
SpecChain == InitChain /\ [][NextChain]_vars

\* client.Do returns: with the downstream answer, or with the error of a
\* refused connection, an expired Timeout or a done context.
DoReturns(n) == Refused(n) \/ Timeout(n) \/ Cancelled(n) \/ Deliver(n)

\* The chain under a fair scheduler: every handler goroutine keeps running,
\* and the runtime's timers and context cancellations wake a pending
\* client.Do.
SpecChainFair ==
    /\ SpecChain
    /\ \A n \in Nodes :
         /\ WF_vars(Forward(n))
         /\ WF_vars(DoReturns(n))
         /\ WF_vars(ReadBody(n))
         /\ WF_vars(Respond(n))
    /\ WF_vars(Work)

----------------------------------------------------------------------------
(* Properties *)

\* The first n pipelines of the build order.
Prefix(n) == SubSeq(BuildOrder, 1, n)

IndexOf(p) == CHOOSE i \in 1..Len(BuildOrder) : BuildOrder[i] = p

\* The errors of the failing callbacks among s, in the order of s.
ExpectedErrs(s) ==
    LET IsFailing(p) == p \in tdFail
        f == SelectSeq(s, IsFailing)
    IN  [i \in 1..Len(f) |-> [kind |-> "teardown", of |-> f[i]]]

NoDuplicates(s) == \A i, j \in 1..Len(s) : s[i] = s[j] => i = j

\* The invocations of the aggregate shutdown function made by a given caller.
InvocationsBy(by) == {i \in 1..Len(sdHist) : sdHist[i].by = by}

\* srv.Shutdown was called and has returned.
AfterDrain == pc \in {"defer_otel", "defer_stop", "done"} /\ inShutdown

\* C1: once the aggregate shutdown function has been invoked, the registry
\* is empty, and every later invocation returns no error and calls no
\* teardown callback.
C1_IdempotentShutdown ==
    /\ Len(sdHist) >= 1 => shutdownFuncs = <<>>
    /\ \A i \in 2..Len(sdHist) :
         /\ sdHist[i].err = NoErr
         /\ sdHist[i].invoked = <<>>

\* A second invocation after a first one that called a failing callback.
C1_Witness ==
    /\ Len(sdHist) >= 2
    /\ Len(sdHist[1].invoked) = 3
    /\ sdHist[1].err # NoErr

\* C2: an invocation of the aggregate shutdown function calls exactly the
\* registered callbacks, each once, in registration order (trace, metric,
\* log), whether or not some of them fail; the registry of the first
\* invocation holds the pipelines built so far.
C2_EveryCallbackOnceInOrder ==
    /\ \A i \in 1..Len(sdHist) :
         /\ sdHist[i].invoked = sdHist[i].reg
         /\ NoDuplicates(sdHist[i].invoked)
    /\ Len(sdHist) >= 1 =>
         /\ sdHist[1].reg = built
         /\ built = Prefix(Len(built))
         /\ callLog = built
         /\ \A p \in Pipelines : calls[p] = (IF p \in Range(built) THEN 1 ELSE 0)

\* All three callbacks were called although the first one failed.
C2_Witness ==
    /\ Len(sdHist) >= 1
    /\ "trace" \in tdFail
    /\ callLog = <<"trace", "metric", "log">>

\* C3: the error an invocation returns holds exactly the errors of the
\* callbacks of its registry that failed, in registration order, and it is
\* nil exactly when none of them failed.
C3_ErrorAggregation ==
    \A i \in 1..Len(sdHist) :
        /\ sdHist[i].err = ExpectedErrs(sdHist[i].reg)
        /\ sdHist[i].err = NoErr <=> Range(sdHist[i].reg) \cap tdFail = {}

\* E1 fails, E2 succeeds, E3 fails: the composite holds E1's and E3's errors.
C3_Witness ==
    /\ Len(sdHist) >= 1
    /\ tdFail = {"trace", "log"}
    /\ sdHist[1].err = TdErr("trace") \o TdErr("log")

\* C4: when the teardown deferred by run() returns an error, the value run()
\* returns contains it.
C4_TeardownErrorSurfaced ==
    pc = "done" =>
        \A i \in InvocationsBy("defer") : Contains(ret, sdHist[i].err)

\* C5: when the construction of a pipeline fails, SetupOTelSDK builds nothing
\* more: the pipelines built are those before it in the build order, and
\* only they are torn down, at most once each. When SetupOTelSDK has
\* returned, each of them was torn down once, the returned error contains
\* the construction error, the registry is empty and the returned shutdown
\* function does nothing.
C5_ConstructionFailureNoLeak ==
    failedAt # "none" =>
        /\ sdkpc \in {"handleErr", "returned"}
        /\ built = Prefix(IndexOf(failedAt) - 1)
        /\ \A p \in Pipelines : calls[p] <= (IF p \in Range(built) THEN 1 ELSE 0)
        /\ sdkpc = "returned" =>
             /\ \A p \in Pipelines : calls[p] = (IF p \in Range(built) THEN 1 ELSE 0)
             /\ sdkErr # NoErr
             /\ Contains(sdkErr, BuildErr(failedAt))
             /\ shutdownFuncs = <<>>
             /\ \A i \in InvocationsBy("client") :
                  sdHist[i].invoked = <<>> /\ sdHist[i].err = NoErr

\* The log pipeline failed to build after two pipelines were built, and the
\* caller invoked the returned shutdown function.
C5_Witness ==
    /\ failedAt = "log"
    /\ calls["trace"] = 1 /\ calls["metric"] = 1
    /\ InvocationsBy("client") # {}

\* C6: when run() has returned, each pipeline that was built has been torn
\* down exactly once, and no other pipeline was torn down.
C6_TornDownExactlyOnce ==
    pc = "done" =>
        \A p \in Pipelines : calls[p] = (IF p \in Range(built) THEN 1 ELSE 0)

\* run() returned after a build failure that left one pipeline built.
C6_Witness ==
    /\ pc = "done"
    /\ failedAt = "metric"
    /\ calls["trace"] = 1

\* C7: when the construction of a pipeline failed, run() never reaches its
\* select, the listener goroutine is never started and no request is accepted.
C7_BuildFailureNeverListens ==
    failedAt # "none" =>
        /\ pc \in {"setup", "defer_stop", "done"}
        /\ lpc = "unstarted"
        /\ \A r \in Reqs : hpc[r] \in {"new", "refused"}

\* run() returned after a build failure and a request was refused.
C7_Witness ==
    /\ failedAt # "none"
    /\ pc = "done"
    /\ \E r \in Reqs : hpc[r] = "refused"

\* C8: when the listener's error is already in the channel at the moment
\* the select chooses, the value run() returns contains that error, whichever
\* arm is chosen.
C8_ListenerFailureSurfaced ==
    (pc = "done" /\ selChan = <<ListenErr>>) => Contains(ret, ListenErr)

\* C9: when the drain has returned, every request that was in flight when
\* it began has been answered; a request arriving after the drain began is
\* refused, and the handlers running during the drain are those that were in
\* flight when it began.
C9_GracefulDrain ==
    /\ AfterDrain => \A r \in inflightAtDrain : hpc[r] = "answered"
    /\ \A r \in lateArrivals : hpc[r] = "refused"
    /\ inShutdown => Active \subseteq inflightAtDrain

\* The drain returned after a request in flight was answered, and another
\* request arrived during the drain.
C9_Witness ==
    /\ AfterDrain
    /\ inflightAtDrain # {}
    /\ lateArrivals # {}

\* C10: once the teardown deferred by run() has been invoked, no handler is
\* in flight, and no span is started or ended after the trace pipeline's
\* teardown.
C10_TeardownAfterDrain ==
    InvocationsBy("defer") # {} => (Active = {} /\ ~lateSpan)

\* C11: a cancelled root context is observed as cancelled by the request
\* context and by the outbound call's context of its node, and an outbound
\* call pending when the root context is cancelled ends with the
\* cancellation error; a step that cancels a request context or ends an
\* outbound call leaves every root context as it was.
C11_ContextDerivation ==
    /\ [](\A n \in Nodes :
            /\ rootDone[n] => (ReqCtxDone(n) /\ CallCtxDone(n))
            /\ (n \in NonTerminal /\ pendingAtCancel[n]) =>
                 (hnd[n] = "waiting" \/ callErr[n] = "canceled"))
    /\ [][(reqCancel' # reqCancel \/ callErr' # callErr) => rootDone' = rootDone]_vars

\* Node A's call to B was pending when A's root context was cancelled, and
\* it has ended with the cancellation error.
C11_Witness ==
    /\ rootDone["A"]
    /\ pendingAtCancel["A"]
    /\ callErr["A"] = "canceled"

\* The positions in node n's span log of operation op on span sp.
Pos(n, sp, op) == {i \in 1..Len(spanLog[n]) : spanLog[n][i] = Ev(sp, op)}

Spans == {"root", "call"}

\* handleRoot at node n has returned from callAppB / callAppC.
CallReturned(n) == n \in NonTerminal /\ hnd[n] \in {"returned", "done"}

\* C12: a span is started at most once and ended at most once, only after
\* its start; when callAppB / callAppC has returned its span has been
\* started and ended once, and when handleRoot has returned so has the
\* request span, whatever the exit path.
C12_SpanLifecycle ==
    \A n \in Nodes :
        /\ \A sp \in Spans :
             /\ Cardinality(Pos(n, sp, "start")) <= 1
             /\ Cardinality(Pos(n, sp, "end")) <= 1
             /\ \A e \in Pos(n, sp, "end") : \E b \in Pos(n, sp, "start") : b < e
        /\ CallReturned(n) =>
             /\ Cardinality(Pos(n, "call", "start")) = 1
             /\ Cardinality(Pos(n, "call", "end")) = 1
        /\ hnd[n] = "done" =>
             /\ Cardinality(Pos(n, "root", "start")) = 1
             /\ Cardinality(Pos(n, "root", "end")) = 1
        /\ n \notin NonTerminal => Pos(n, "call", "start") = {}

\* Node A returned on the decode-error path, node B on the refused path, and
\* both ended their two spans.
C12_Witness ==
    /\ hnd["A"] = "done" /\ callErr["A"] = "decode"
    /\ hnd["B"] = "done" /\ callErr["B"] = "refused"
    /\ Pos("A", "call", "end") # {} /\ Pos("B", "root", "end") # {}

\* C13: with B and C healthy, well-formed URLs, no cancellation, no timeout
\* and no read failure, A's answer to GET / has status 200 and a JSON body
\* whose service is app-a, whose result is B's body, whose result is C's
\* payload with status "success".
C13_ChainScenario ==
    ( /\ hnd["A"] = "done"
      /\ \A n \in Nodes :
           /\ mode[n] = "healthy"
           /\ ~rootDone[n] /\ ~reqCancel[n]
           /\ callErr[n] \notin {"timeout", "read"}
      /\ urlBad = {} )
    => /\ resp["A"].code = 200
       /\ resp["A"].body.json
       /\ resp["A"].body.val.service = "app-a"
       /\ resp["A"].body.val.result = resp["B"].body.val
       /\ resp["A"].body.val.result.service = "app-b"
       /\ resp["A"].body.val.result.result = resp["C"].body.val
       /\ resp["A"].body.val.result.result.service = "app-c"
       /\ resp["A"].body.val.result.result.status = "success"

\* The request went through the healthy chain and A has answered 200.
C13_Witness ==
    /\ hnd["A"] = "done" /\ hnd["B"] = "done" /\ hnd["C"] = "done"
    /\ callErr["A"] = "none" /\ callErr["B"] = "none"
    /\ resp["A"].code = 200

\* C14: a non-terminal node whose outbound call failed answers 500 with a
\* plain-text body, after recording the error on its request span and
\* before ending that span; no node issues more than one outbound call.
C14_DownstreamDown ==
    \A n \in NonTerminal :
        /\ outCalls[n] <= 1
        /\ (hnd[n] = "done" /\ callErr[n] # "none") =>
             /\ resp[n].code = 500
             /\ ~resp[n].body.json
             /\ \E i \in Pos(n, "root", "error") :
                  \A e \in Pos(n, "root", "end") : i < e

\* Each kind of failure of the outbound call has produced a 500 at A.
C14_Witness ==
    /\ hnd["A"] = "done"
    /\ callErr["A"] \in {"refused", "timeout", "decode"}
    /\ mode["B"] \in {"unreachable", "hung"}
    /\ outCalls["A"] = 1
    /\ resp["A"].code = 500

\* C15: every answer of GET /health is 200 with the body OK, whatever the
\* state of the downstream nodes, and serving it issues no outbound call.
C15_HealthIsolation ==
    /\ [](\A n \in Nodes :
            healthResp[n] # NoResp =>
                /\ healthResp[n].code = 200
                /\ healthResp[n].body = [json |-> FALSE, val |-> [text |-> "OK"]])
    /\ [][healthResp' # healthResp => outCalls' = outCalls]_vars

\* A and B answered GET /health while C was unreachable and B's call to
\* it was pending.
C15_Witness ==
    /\ mode["B"] = "healthy" /\ mode["C"] = "unreachable"
    /\ healthResp["B"].code = 200
    /\ healthResp["A"].code = 200
    /\ hnd["B"] = "waiting"

\* C17: a non-terminal node answers 200 only when its outbound call returned
\* no error and the downstream answer was itself a 200; when C is
\* unreachable B's answer is a 500 with a plain-text body and A's answer is a
\* 500.
C17_FailuresPropagate ==
    /\ \A n \in NonTerminal :
         (hnd[n] = "done" /\ resp[n].code = 200) =>
             (callErr[n] = "none" /\ got[n].code = 200 /\ got[n].body.json)
    /\ (mode["C"] = "unreachable" /\ hnd["B"] = "done") =>
         (resp["B"].code = 500 /\ ~resp["B"].body.json)
    /\ (mode["C"] = "unreachable" /\ hnd["A"] = "done") => resp["A"].code = 500

\* C was unreachable, B answered 500, A failed to decode B's body and
\* answered 500.
C17_Witness ==
    /\ mode["C"] = "unreachable"
    /\ callErr["B"] = "refused" /\ resp["B"].code = 500
    /\ got["A"] = resp["B"]
    /\ callErr["A"] = "decode" /\ resp["A"].code = 500

\* C18: on every span, each attribute and each error is recorded before the
\* span's end; the call span ends before the request span, and the request
\* span of a non-terminal node ends only after the call span has ended.
C18_NothingAfterEnd ==
    \A n \in Nodes :
        /\ \A sp \in Spans : \A e \in Pos(n, sp, "end") :
             \A i \in Pos(n, sp, "attr") \cup Pos(n, sp, "error") : i < e
        /\ \A er \in Pos(n, "root", "end") :
             /\ \A ec \in Pos(n, "call", "end") : ec < er
             /\ n \in NonTerminal => Pos(n, "call", "end") # {}

\* B returned on an error path: the error is on its request span, both
\* spans are ended.
C18_Witness ==
    /\ hnd["B"] = "done"
    /\ Pos("B", "root", "error") # {}
    /\ Pos("B", "call", "end") # {} /\ Pos("B", "root", "end") # {}

\* C16: run() never returns http.ErrServerClosed; when the signal arm was
\* taken with a listener that had not failed, srv.Shutdown returned nil and
\* every teardown function returned nil, run() returns nil.
C16_CleanStopReturnsNil ==
    pc = "done" =>
        /\ ~Contains(ret, ErrServerClosed)
        /\ ( /\ inShutdown
             /\ lnRes # ListenErr
             /\ drainErr = NoErr
             /\ \A i \in InvocationsBy("defer") : sdHist[i].err = NoErr )
           => ret = NoErr

\* A signal stopped a healthy process: the listener goroutine sent
\* ErrServerClosed on srvErr, the drain and the teardown succeeded, run()
\* returned nil.
C16_Witness ==
    /\ pc = "done" /\ signalled /\ inShutdown
    /\ lnRes = ErrServerClosed /\ lpc = "exited" /\ srvErr = <<ErrServerClosed>>
    /\ drainErr = NoErr
    /\ InvocationsBy("defer") # {}
    /\ \A i \in InvocationsBy("defer") : sdHist[i].err = NoErr
    /\ ret = NoErr

\* A handler of GET / is between its entry and its return.
InHandler(n) == hnd[n] \notin {"idle", "done"}

\* C19: while the node's process lives, every handler of GET / that was
\* entered returns, with a response written, even when the downstream node
\* never answers.
C19_HandlersTerminate ==
    /\ \A n \in Nodes : InHandler(n) ~> (hnd[n] = "done")
    /\ [](\A n \in Nodes : hnd[n] = "done" => resp[n].code \in {200, 500})

\* B never answered and A's handler returned through the client's Timeout.
C19_Witness ==
    /\ mode["B"] = "hung"
    /\ ~rootDone["A"] /\ ~reqCancel["A"]
    /\ hnd["A"] = "done" /\ callErr["A"] = "timeout"
    /\ resp["A"].code = 500

\* run() has returned after a drain that returned and a teardown that was
\* invoked.
Stopped == pc = "done" /\ inShutdown /\ InvocationsBy("defer") # {}

\* C20: stop() has been called whenever the drain has begun; once the
\* signal has fired with run() at its select and the listener serving, the
\* process reaches Stopped: the drain has returned, the teardown has been
\* invoked and run() has returned.
C20_SignalLeadsToStopped ==
    /\ []((pc \in {"shutdown", "draining"} \/ inShutdown) => ~observing)
    /\ (ctxDone /\ pc = "select" /\ lpc = "serving") ~> Stopped

\* run() took the listener arm of its select and received from srvErr.
Received == selChan # <<>> /\ ~inShutdown /\ pc \in {"defer_otel", "defer_stop", "done"}

\* The number of sends made on srvErr so far.
Sent == Len(srvErr) + (IF Received THEN 1 ELSE 0)

\* C21: the listener goroutine's send finds a free slot whenever it is
\* reached, the goroutine has sent once when it has ended and never before,
\* the result stays in the channel when the signal arm won, and a goroutine
\* that has its result, or whose server is shutting down, ends (unless the
\* process exits first).
C21_SingleSendNeverBlocks ==
    /\ [](Len(srvErr) <= ChanCap)
    /\ []((lpc = "returned" /\ Alive) => Len(srvErr) < ChanCap)
    /\ [](Sent = IF lpc = "exited" THEN 1 ELSE 0)
    /\ []((inShutdown /\ lpc = "exited") => srvErr = <<lnRes>>)
    /\ (lpc = "returned") ~> (lpc = "exited" \/ ~Alive)
    /\ (inShutdown /\ lpc # "unstarted") ~> (lpc = "exited" \/ ~Alive)

\* The listener failed, the signal arm won the select, and run() returned
\* with the listener's error unread in srvErr and the goroutine ended.
C21_Witness ==
    /\ pc = "done" /\ inShutdown
    /\ lnRes = ListenErr
    /\ lpc = "exited"
    /\ srvErr = <<ListenErr>>

====
